---- MODULE Spec2Model ----
(***************************************************************************)
(* Layered configuration resolution of syngesture (src/src/config.rs).     *)
(*                                                                         *)
(* load() builds a Configuration (Device -> Gesture -> Action) from four   *)
(* sources, in this order: the system file, the system directory, the user *)
(* file and the user directory.  The model follows load() step by step;    *)
(* what the file system and the environment hold is an input of the step   *)
(* that reads it.                                                          *)
(***************************************************************************)
EXTENDS Naturals, Sequences, FiniteSets, TLC

VARIABLES
    pc,           \* position in load()
    config,       \* Configuration.devices : Device -> (Gesture -> Action)
    diags,        \* everything written to stderr so far, in order
    config_home,  \* load_user_config's config_home, once resolved
    pending,      \* entries the read_dir iterator has not yielded yet
    budget,       \* file system objects not yet met under the search paths
    env,          \* history: the environment load_user_config saw
    probe,        \* history: the search path the last step probed
    scan,         \* history: the directory scan in progress or just ended
    call,         \* history: the load_config_file call of the last step
    top,          \* history: per key, the highest level that supplied it
    searched      \* history: the levels applied so far, in order

vars == <<pc, config, diags, config_home, pending, budget, env, probe, scan,
          call, top, searched>>

----------------------------------------------------------------------------
(* Bounds of the model *)

\* at most this many file system objects exist under the four search paths
MaxFiles == 3

----------------------------------------------------------------------------
(* Data model *)

Devices == {"touchpad0", "touchpad1"}
Gestures == {"swipe-left", "swipe-right"}
Commands == {"workspace-prev", "workspace-next"}

\* enum Action { None, Execute(String) }
ActionNone == [tag |-> "None", cmd |-> ""]
Execute(c) == [tag |-> "Execute", cmd |-> c]

\* impl Default for Action
ActionDefault == ActionNone

\* the element of a set of one element; { e(x) : x \in {v} } is e with x bound
\* to the value of v, which is thus worked out once
The(S) == CHOOSE x \in S : TRUE

\* BTreeMap::new(): the map with no key
EmptyMap == [k \in {} |-> k]

\* Configuration::new()
ConfigurationNew == EmptyMap

\* a slip: the value of a key the map already has is kept
MapInsertKeepsOld(m, k, v) == IF k \in DOMAIN m THEN m ELSE m @@ (k :> v)

\* BTreeMap::insert: add the key or overwrite its value
MapInsert(m, k, v) == [x \in (DOMAIN m) \cup {k} |-> IF x = k THEN v ELSE m[x]]

\* BTreeMap::entry(k).or_default(): add the key with an empty map when missing
EntryOrDefault(m, k) == IF k \in DOMAIN m THEN m ELSE MapInsert(m, k, EmptyMap)

----------------------------------------------------------------------------
(* Paths: a PathBuf is the sequence of its components, and a component  *)
(* (a file name) is the sequence of its parts between dots:             *)
(* "syngestures.toml" is <<"syngestures", "toml">>, ".config" is        *)
(* <<"", "config">>                                                     *)

\* PREFIX.unwrap_or("/usr/local")
PREFIX == <<<<"usr">>, <<"local">>>>

\* Path::join with a relative path
Join(p, rel) == p \o rel

\* Path::extension of a file name: what follows its last dot; none when the
\* name has no dot, or only the one it starts with
NoExtension == "<none>"
Extension(name) ==
    IF Len(name) < 2 \/ (Len(name) = 2 /\ name[1] = "")
    THEN NoExtension
    ELSE name[Len(name)]

\* let global_config = prefix.join("etc/syngestures.toml")
GlobalConfig == Join(PREFIX, <<<<"etc">>, <<"syngestures", "toml">>>>)

\* let global_config_dir = prefix.join("etc/syngestures.d")
GlobalConfigDir == Join(PREFIX, <<<<"etc">>, <<"syngestures", "d">>>>)

\* let user_config_file = config_home.join("syngestures.toml")
UserConfigFile(home) == Join(home, <<<<"syngestures", "toml">>>>)

\* let user_config_dir = config_home.join("syngestures.d")
UserConfigDir(home) == Join(home, <<<<"syngestures", "d">>>>)

----------------------------------------------------------------------------
(* Documents: what a file holds, before it is parsed *)

\* a gesture record that has no action field
NoField == "<no action field>"

\* gesture fields that are no gesture of the vocabulary (a wrong type, a
\* missing or an unknown field)
BadGesture == "<not a gesture>"

\* a gesture record of a document: the gesture's fields, and the execute field
Rec(g, x) == [gesture |-> g, execute |-> x]

\* a device block of a document
Blk(d, gs) == [device |-> d, gestures |-> gs]

\* a file that cannot be read, one that is no TOML at all, and a TOML document
Unreadable == [form |-> "unreadable", devices |-> <<>>]
Garbage == [form |-> "garbage", devices |-> <<>>]
Toml(devs) == [form |-> "toml", devices |-> devs]

DocPrev == Toml(<<Blk("touchpad0", <<Rec("swipe-left", "workspace-prev")>>)>>)
DocNext == Toml(<<Blk("touchpad0", <<Rec("swipe-left", "workspace-next")>>)>>)
DocRight ==
    Toml(<<Blk("touchpad0", <<Rec("swipe-right", "workspace-next")>>),
           Blk("touchpad1", <<Rec("swipe-right", "workspace-prev")>>)>>)
DocOther == Toml(<<Blk("touchpad1", <<Rec("swipe-left", "workspace-prev")>>)>>)
DocDup ==
    Toml(<<Blk("touchpad0", <<Rec("swipe-right", "workspace-prev"),
                              Rec("swipe-right", "workspace-next")>>)>>)
DocNoGestures == Toml(<<Blk("touchpad1", <<>>)>>)
DocNoAction == Toml(<<Blk("touchpad1", <<Rec("swipe-right", NoField)>>)>>)
DocLateBad ==
    Toml(<<Blk("touchpad0", <<Rec("swipe-left", "workspace-next")>>),
           Blk("touchpad1", <<Rec(BadGesture, "workspace-prev")>>)>>)

----------------------------------------------------------------------------
(* File system nodes *)

Absent == [kind |-> "absent", content |-> Garbage, listable |-> FALSE, entries |-> {}]
FileNode(c) == [kind |-> "file", content |-> c, listable |-> FALSE, entries |-> {}]
DirNode(l, es) == [kind |-> "dir", content |-> Garbage, listable |-> l, entries |-> es]

\* a slip: the path is not looked for
ExistsUnchecked(node) == TRUE

\* Path::exists
Exists(node) == node.kind # "absent"

\* Path::is_dir
IsDir(node) == node.kind = "dir"

\* a directory entry: its file name, whether read_dir yields it or an error,
\* what DirEntry::file_type answers, and the content of the file (of a
\* subdirectory: of a .toml file nested in it)
Entry(name, status, ftype, c) ==
    [name |-> name, status |-> status, ftype |-> ftype, content |-> c]

\* DirEntry::path
EntryPath(dirpath, item) == Join(dirpath, <<item.name>>)

----------------------------------------------------------------------------
(* load_config_file *)

\* std::fs::read
FsRead(node) ==
    IF node.kind = "file" /\ node.content.form # "unreadable"
    THEN [ok |-> TRUE, bytes |-> node.content]
    ELSE [ok |-> FALSE, bytes |-> Garbage]

\* Deserialize for the flattened field `action: Action`: the enum is read from
\* the record's remaining fields; its only variant that is not skipped is
\* execute, and the field carries no serde default
DeserializeAction(rec) ==
    IF rec.execute = NoField
    THEN [ok |-> FALSE, action |-> ActionNone]
    ELSE [ok |-> TRUE, action |-> Execute(rec.execute)]

\* Deserialize for ConfigGestureAndAction: the flattened gesture, then the
\* flattened action
DeserializeGesture(rec) ==
    LET a == DeserializeAction(rec)
    IN  [ok |-> rec.gesture \in Gestures /\ a.ok,
         gesture |-> rec.gesture, action |-> a.action]

\* Deserialize for ConfigDeviceGestures
DeserializeDevice(blk) ==
    The({ [ok |-> \A i \in DOMAIN gestures : gestures[i].ok,
           device |-> blk.device,
           gestures |-> gestures] :
          gestures \in {[i \in DOMAIN blk.gestures |->
                            DeserializeGesture(blk.gestures[i])]} })

\* toml::from_slice::<ConfigFile>: the whole document, or an error
FromSlice(bytes) ==
    IF bytes.form # "toml"
    THEN [ok |-> FALSE, devices |-> <<>>, cause |-> "toml syntax"]
    ELSE The({ IF \E i \in DOMAIN devices : ~devices[i].ok
               THEN [ok |-> FALSE, devices |-> <<>>, cause |-> "schema"]
               ELSE [ok |-> TRUE, devices |-> devices, cause |-> ""] :
               devices \in {[i \in DOMAIN bytes.devices |->
                                 DeserializeDevice(bytes.devices[i])]} })

RECURSIVE InsertGestures(_, _)
\* for gesture_action in device_config.gestures { device_gestures.insert(..) }
InsertGestures(device_gestures, gestures) ==
    IF gestures = <<>>
    THEN device_gestures
    ELSE InsertGestures(
             MapInsert(device_gestures, Head(gestures).gesture, Head(gestures).action),
             Tail(gestures))

\* one turn of `for device_config in config_file.devices`
ApplyDevice(devices, device_config) ==
    LET with == EntryOrDefault(devices, device_config.device)
    IN  [with EXCEPT ![device_config.device] =
             InsertGestures(@, device_config.gestures)]

RECURSIVE ApplyDevices(_, _)
\* for device_config in config_file.devices { .. }
ApplyDevices(devices, device_configs) ==
    IF device_configs = <<>>
    THEN devices
    ELSE ApplyDevices(ApplyDevice(devices, Head(device_configs)), Tail(device_configs))

\* the device blocks of a document up to the first one that breaks the schema
ValidPrefix(devs) ==
    LET bad == { i \in DOMAIN devs : ~DeserializeDevice(devs[i]).ok }
        n == IF bad = {} THEN Len(devs) ELSE (CHOOSE i \in bad : \A j \in bad : i <= j) - 1
    IN  [i \in 1 .. n |-> DeserializeDevice(devs[i])]

\* a slip: each device block is applied as soon as it is parsed
LoadConfigFileBlockwise(cfg, node) ==
    The({ IF ~bytes.ok
          THEN [ok |-> FALSE, config |-> cfg, cause |-> "io error"]
          ELSE The({ IF ~config_file.ok
                     THEN [ok |-> FALSE,
                           config |-> ApplyDevices(cfg, ValidPrefix(bytes.bytes.devices)),
                           cause |-> config_file.cause]
                     ELSE [ok |-> TRUE,
                           config |-> ApplyDevices(cfg, config_file.devices),
                           cause |-> ""] :
                     config_file \in {FromSlice(bytes.bytes)} }) :
          bytes \in {FsRead(node)} })

\* load_config_file: read, parse the whole file, then apply it
LoadConfigFile(cfg, node) ==
    The({ IF ~bytes.ok
          THEN [ok |-> FALSE, config |-> cfg, cause |-> "io error"]
          ELSE The({ IF ~config_file.ok
                     THEN [ok |-> FALSE, config |-> cfg, cause |-> config_file.cause]
                     ELSE [ok |-> TRUE,
                           config |-> ApplyDevices(cfg, config_file.devices),
                           cause |-> ""] :
                     config_file \in {FromSlice(bytes.bytes)} }) :
          bytes \in {FsRead(node)} })

\* a line (or, for the final summary, a block of lines) written to stderr
Diag(msg, path, cause) == [msg |-> msg, path |-> path, cause |-> cause, list |-> <<>>]

\* try_load_config_file
TryLoadConfigFile(cfg, dg, path, node) ==
    The({ [ok |-> r.ok,
           config |-> r.config,
           diags |-> IF r.ok THEN dg
                     ELSE Append(dg, Diag("Error loading configuration file at",
                                          path, r.cause))] :
          r \in {LoadConfigFile(cfg, node)} })

----------------------------------------------------------------------------
(* What the file system and the environment may hold *)

\* a file at a search path costs one object of the budget, a directory one per entry
Cost(node) ==
    IF node.kind = "file" THEN 1
    ELSE IF node.kind = "dir" THEN Cardinality(node.entries)
    ELSE 0

FileContents == {DocPrev, DocNext, DocDup, DocLateBad, DocNoGestures, Garbage}

\* what may be found at <prefix>/etc/syngestures.toml or <config-home>/syngestures.toml
FileNodes == {Absent, DirNode(TRUE, {})} \cup {FileNode(c) : c \in FileContents}

EntryPool ==
    { Entry(<<"10-prev", "toml">>, "ok", "file", DocPrev),
      Entry(<<"20-next", "toml">>, "ok", "file", DocNext),
      Entry(<<"30-right", "toml">>, "ok", "file", DocRight),
      Entry(<<"50-late", "toml">>, "ok", "file", DocLateBad),
      Entry(<<"60-inert", "toml">>, "ok", "file", DocNoAction),
      Entry(<<"70-locked", "toml">>, "ok", "file", Unreadable),
      Entry(<<"sub", "toml">>, "ok", "dir", DocOther),
      Entry(<<"notes", "txt">>, "ok", "file", DocOther),
      Entry(<<"80-gone", "toml">>, "ok", "error", DocOther),
      Entry(<<"90-lost", "toml">>, "error", "file", DocOther) }

\* what may be found at <prefix>/etc/syngestures.d or <config-home>/syngestures.d:
\* nothing, a file, a directory that cannot be listed, or a directory of entries
PlainNodes == {Absent, FileNode(DocOther), DirNode(FALSE, {})}
Listings == { es \in SUBSET EntryPool : Cardinality(es) <= MaxFiles }

\* std::env::var("XDG_CONFIG_HOME")
XdgChoices ==
    { [var |-> "NotPresent", value |-> <<>>],
      [var |-> "NotUnicode", value |-> <<>>],
      [var |-> "Ok", value |-> <<<<"xdg">>>>] }

\* std::env::home_dir()
HomeChoices ==
    { [some |-> FALSE, path |-> <<>>],
      [some |-> TRUE, path |-> <<>>],
      [some |-> TRUE, path |-> <<<<"home">>, <<"user">>>>] }

HomeUnread == [some |-> FALSE, path |-> <<<<"unread">>>>]
NoEnv == [xdg |-> [var |-> "unread", value |-> <<>>], home |-> HomeUnread]

----------------------------------------------------------------------------
(* History records *)

Levels == <<"system file", "system directory", "user file", "user directory">>

LevelNo(level) == CHOOSE i \in DOMAIN Levels : Levels[i] = level

NoProbe == [level |-> "none", path |-> <<>>, node |-> Absent]
NoCall == [made |-> FALSE, path |-> <<>>, node |-> Absent, ok |-> TRUE, before |-> EmptyMap]
NoScan ==
    [level |-> "none", path |-> <<>>, entries |-> {}, prior |-> EmptyMap,
     ndiags |-> 0, loaded |-> <<>>]

\* what a gesture record states: its device, its gesture and its action, a
\* record with no action field stating the no-op
Stated(blk, j) ==
    <<blk.device,
      blk.gestures[j].gesture,
      IF blk.gestures[j].execute = NoField
      THEN ActionNone
      ELSE Execute(blk.gestures[j].execute)>>

\* the (device, gesture, action) triples a document states
DocBindings(content) ==
    UNION { { Stated(content.devices[i], j) : j \in DOMAIN content.devices[i].gestures } :
            i \in DOMAIN content.devices }

KeysOf(triples) == { <<t[1], t[2]>> : t \in triples }
ActionsFor(triples, key) == { t[3] : t \in { u \in triples : <<u[1], u[2]>> = key } }

\* per key: the highest level whose successfully loaded sources stated it, the
\* actions stated for it at that level, and those stated for it at lower levels
UpdateTop(tp, level, triples) ==
    [ key \in (DOMAIN tp) \cup KeysOf(triples) |->
        LET mine == ActionsFor(triples, key)
            old == IF key \in DOMAIN tp
                   THEN tp[key]
                   ELSE [level |-> 0, actions |-> {}, lower |-> {}]
        IN  IF mine = {} THEN old
            ELSE IF LevelNo(level) > old.level
            THEN [level |-> LevelNo(level), actions |-> mine,
                  lower |-> old.lower \cup old.actions]
            ELSE IF LevelNo(level) = old.level
            THEN [old EXCEPT !.actions = @ \cup mine]
            ELSE [old EXCEPT !.lower = @ \cup mine] ]

----------------------------------------------------------------------------
(* load_user_config's path resolution *)

\* get_user_config_dir
GetUserConfigDir(home) ==
    IF ~home.some \/ home.path = <<>>
    THEN [ok |-> FALSE, dir |-> <<>>]
    ELSE [ok |-> TRUE, dir |-> Join(home.path, <<<<"", "config">>>>)]

\* a slip: an XDG_CONFIG_HOME that is no valid text falls back to the home directory
ResolveConfigHomeLenient(xdg, home) ==
    IF xdg.var = "Ok"
    THEN [ok |-> TRUE, dir |-> xdg.value, msg |-> ""]
    ELSE [ok |-> TRUE, dir |-> <<<<"home">>, <<"user">>, <<"", "config">>>>, msg |-> ""]

\* let config_home = match std::env::var("XDG_CONFIG_HOME") { .. }
ResolveConfigHome(xdg, home) ==
    IF xdg.var = "Ok"
    THEN [ok |-> TRUE, dir |-> xdg.value, msg |-> ""]
    ELSE IF xdg.var = "NotPresent"
    THEN [ok |-> GetUserConfigDir(home).ok,
          dir |-> GetUserConfigDir(home).dir,
          msg |-> "Could not determine user home directory!"]
    ELSE [ok |-> FALSE, dir |-> <<>>, msg |-> "Invalid XDG_CONFIG_HOME"]

----------------------------------------------------------------------------
(* load(), step by step *)

\* load() is entered: let mut config = Configuration::new()
Init ==
    /\ pc = "global_file"
    /\ config = ConfigurationNew
    /\ diags = <<>>
    /\ config_home = <<>>
    /\ pending = {}
    /\ budget = MaxFiles
    /\ env = NoEnv
    /\ probe = NoProbe
    /\ scan = NoScan
    /\ call = NoCall
    /\ top = EmptyMap
    /\ searched = <<>>

\* if path.exists() { try_load_config_file(&mut config, &path); }
FileStep(level, path, next) ==
    \E node \in FileNodes :
        /\ Cost(node) <= budget
        /\ budget' = budget - Cost(node)
        /\ IF Exists(node)
           THEN \E r \in {TryLoadConfigFile(config, diags, path, node)} :
                \E stated \in {IF r.ok THEN DocBindings(node.content) ELSE {}} :
                    /\ config' = r.config
                    /\ diags' = r.diags
                    /\ call' = [made |-> TRUE, path |-> path, node |-> node,
                                ok |-> r.ok, before |-> config]
                    /\ top' = UpdateTop(top, level, stated)
           ELSE /\ UNCHANGED <<config, diags, top>>
                /\ call' = NoCall
        /\ probe' = [level |-> level, path |-> path, node |-> node]
        /\ searched' = Append(searched, level)
        /\ scan' = NoScan
        /\ pc' = next
        /\ UNCHANGED <<config_home, pending, env>>

\* load: the system file
LoadGlobalFile ==
    /\ pc = "global_file"
    /\ FileStep("system file", GlobalConfig, "global_dir")

\* load_user_config: the user file
LoadUserFile ==
    /\ pc = "user_file"
    /\ FileStep("user file", UserConfigFile(config_home), "user_dir")

\* a slip: load() returns once the system directory is done with
AfterDirReturns(level) == "final"

\* where load() goes on once a directory is done with
AfterDir(level) == IF level = "system directory" THEN "user" ELSE "final"

\* try_load_config_dir and the head of load_config_dir: nothing to do unless the
\* path is a directory; an error of read_dir is reported; else the scan begins
DirFound(level, path, scanning, node) ==
    /\ Cost(node) <= budget
    /\ budget' = budget - Cost(node)
    /\ probe' = [level |-> level, path |-> path, node |-> node]
    /\ searched' = Append(searched, level)
    /\ call' = NoCall
    /\ UNCHANGED <<config, config_home, env, top>>
    /\ IF ~Exists(node) \/ ~IsDir(node)
       THEN /\ pc' = AfterDir(level)
            /\ UNCHANGED <<diags, pending>>
            /\ scan' = NoScan
       ELSE IF ~node.listable
       THEN /\ pc' = AfterDir(level)
            /\ diags' = Append(diags,
                   Diag("Error reading from configuration directory", path, "io error"))
            /\ UNCHANGED pending
            /\ scan' = NoScan
       ELSE /\ pc' = scanning
            /\ pending' = node.entries
            /\ UNCHANGED diags
            /\ scan' = [level |-> level, path |-> path, entries |-> node.entries,
                        prior |-> config, ndiags |-> Len(diags), loaded |-> <<>>]

DirStep(level, path, scanning) ==
    \/ \E node \in PlainNodes : DirFound(level, path, scanning, node)
    \/ \E es \in Listings : DirFound(level, path, scanning, DirNode(TRUE, es))

\* load: the system directory
OpenGlobalDir ==
    /\ pc = "global_dir"
    /\ DirStep("system directory", GlobalConfigDir, "global_scan")

\* load_user_config: the user directory
OpenUserDir ==
    /\ pc = "user_dir"
    /\ DirStep("user directory", UserConfigDir(config_home), "user_scan")

\* a slip: the entry's type is not looked at
PassesFilterAnyType(item) == Extension(item.name) = "toml"

\* whether process_item hands the entry to try_load_config_file
PassesFilter(item) ==
    /\ item.ftype # "dir"
    /\ Extension(item.name) = "toml"

\* one turn of `for item in dir.read_dir()?`, on whichever entry comes next
ScanEntry ==
    /\ pc \in {"global_scan", "user_scan"}
    /\ \E item \in pending :
        /\ pending' = pending \ {item}
        /\ UNCHANGED <<pc, config_home, budget, env, searched>>
        /\ probe' = NoProbe
        /\ IF item.status = "error"
           THEN /\ diags' = Append(diags,
                       Diag("Error reading file from configuration directory",
                            scan.path, "io error"))
                /\ UNCHANGED <<config, scan, top>>
                /\ call' = NoCall
           ELSE IF item.ftype = "error"
           THEN /\ diags' = Append(diags,
                       Diag("Error loading", EntryPath(scan.path, item), "io error"))
                /\ UNCHANGED <<config, scan, top>>
                /\ call' = NoCall
           ELSE IF ~PassesFilter(item)
           THEN /\ UNCHANGED <<config, diags, scan, top>>
                /\ call' = NoCall
           ELSE \E path \in {EntryPath(scan.path, item)} :
                \E r \in {TryLoadConfigFile(config, diags, path, FileNode(item.content))} :
                \E stated \in {IF r.ok THEN DocBindings(item.content) ELSE {}} :
                    /\ config' = r.config
                    /\ diags' = r.diags
                    /\ call' = [made |-> TRUE, path |-> path, node |-> FileNode(item.content),
                                ok |-> r.ok, before |-> config]
                    /\ top' = UpdateTop(top, scan.level, stated)
                    /\ scan' = [scan EXCEPT !.loaded = Append(@, item)]

\* the read_dir iterator is exhausted: load_config_dir returns Ok(())
CloseDir ==
    /\ pc \in {"global_scan", "user_scan"}
    /\ pending = {}
    /\ pc' = AfterDir(scan.level)
    /\ call' = NoCall
    /\ probe' = NoProbe
    /\ UNCHANGED <<config, diags, config_home, pending, budget, env, scan, top, searched>>

\* load_user_config, up to the paths it will try
LoadUserConfig ==
    /\ pc = "user"
    /\ \E xdg \in XdgChoices :
       \E home \in IF xdg.var = "NotPresent" THEN HomeChoices ELSE {HomeUnread} :
        LET r == ResolveConfigHome(xdg, home)
        IN  /\ env' = [xdg |-> xdg, home |-> home]
            /\ IF r.ok
               THEN /\ config_home' = r.dir
                    /\ pc' = "user_file"
                    /\ UNCHANGED diags
               ELSE /\ diags' = Append(diags, Diag(r.msg, <<>>, ""))
                    /\ pc' = "final"
                    /\ UNCHANGED config_home
    /\ call' = NoCall
    /\ probe' = NoProbe
    /\ scan' = NoScan
    /\ UNCHANGED <<config, pending, budget, top, searched>>

\* the lines load() prints below "Searched for configuration files in the
\* following locations:"
SearchedLines ==
    << Join(GlobalConfigDir, <<<<"etc">>, <<"syngestures", "toml">>>>),
       Join(GlobalConfigDir, <<<<"etc">>, <<"syngestures", "d">>, <<"*", "toml">>>>),
       <<<<"$XDG_HOME">>, <<"syngestures", "toml">>>>,
       <<<<"$XDG_HOME">>, <<"syngestures", "d">>, <<"*", "toml">>>>,
       <<<<"$HOME">>, <<"", "config">>, <<"syngestures", "toml">>>>,
       <<<<"$HOME">>, <<"", "config">>, <<"syngestures", "d">>, <<"*", "toml">>>> >>

NoConfigurationFound ==
    [msg |-> "No configuration found!", path |-> <<>>, cause |-> "", list |-> SearchedLines]

\* config.devices.is_empty()
IsEmpty(devices) == DOMAIN devices = {}

\* the end of load(): the summary when nothing was configured; return config
Final ==
    /\ pc = "final"
    /\ diags' = IF IsEmpty(config) THEN Append(diags, NoConfigurationFound) ELSE diags
    /\ pc' = "done"
    /\ call' = NoCall
    /\ probe' = NoProbe
    /\ scan' = NoScan
    /\ UNCHANGED <<config, config_home, pending, budget, env, top, searched>>

Next ==
    \/ LoadGlobalFile
    \/ OpenGlobalDir
    \/ ScanEntry
    \/ CloseDir
    \/ LoadUserConfig
    \/ LoadUserFile
    \/ OpenUserDir
    \/ Final

Spec == Init /\ [][Next]_vars

\* load() runs on while it has a step to take: no step of it waits for anything
FairSpec == Spec /\ WF_vars(Next)

----------------------------------------------------------------------------
(* What the claims speak of, stated apart from the code's operators *)

AllKeys == Devices \X Gestures

Unbound == [tag |-> "unbound", cmd |-> ""]

\* the action the store binds the key to, if any
Lookup(devices, key) ==
    IF key[1] \in DOMAIN devices /\ key[2] \in DOMAIN devices[key[1]]
    THEN devices[key[1]][key[2]]
    ELSE Unbound

\* the document follows the schema: TOML, and every gesture record a gesture
\* of the vocabulary, with or without an action field
SchemaOk(content) ==
    /\ content.form = "toml"
    /\ \A t \in DocBindings(content) : t[2] \in Gestures

\* a well-formed source: a file that can be read and follows the schema
WellFormed(content) == SchemaOk(content)

\* some gesture record of the document has no action field
Inert(content) ==
    \E i \in DOMAIN content.devices :
        \E j \in DOMAIN content.devices[i].gestures :
            content.devices[i].gestures[j].execute = NoField

\* the positions (block, record) of the document's records for the key
RecordsFor(content, key) ==
    UNION { { <<i, j>> : j \in { k \in DOMAIN content.devices[i].gestures :
                                   /\ content.devices[i].device = key[1]
                                   /\ content.devices[i].gestures[k].gesture = key[2] } } :
            i \in DOMAIN content.devices }

\* the action of the document's last record for the key
LastAction(content, key) ==
    LET last == CHOOSE p \in RecordsFor(content, key) :
                    \A q \in RecordsFor(content, key) :
                        q[1] < p[1] \/ (q[1] = p[1] /\ q[2] <= p[2])
    IN  Stated(content.devices[last[1]], last[2])[3]

DocKeys(content) == KeysOf(DocBindings(content))

\* the store holds the prior bindings and the documents' bindings: a key some
\* document states is bound as one of those documents binds it, any other key
\* as it was bound before
MergedIs(store, prior, docs) ==
    \A key \in AllKeys :
        LET stating == { d \in docs : key \in DocKeys(d) }
        IN  IF stating = {}
            THEN Lookup(store, key) = Lookup(prior, key)
            ELSE Lookup(store, key) \in { LastAction(d, key) : d \in stating }

\* the file name ends in .toml, and the dot is not the one a hidden file's
\* name starts with
TomlName(name) ==
    /\ Len(name) >= 2
    /\ name[Len(name)] = "toml"
    /\ ~(Len(name) = 2 /\ name[1] = "")

\* the home directory can be determined
HomeKnown(home) == home.some /\ home.path # <<>>

\* the resolver fails on this environment
ResolverFails(e) ==
    \/ e.xdg.var = "NotUnicode"
    \/ e.xdg.var = "NotPresent" /\ ~HomeKnown(e.home)

----------------------------------------------------------------------------
(* C1 *)

\* C1: a key that successfully parsed sources of two precedence levels state
\* is bound, in the store load() builds and returns, to an action stated at
\* the higher level: at every moment the store binds each stated key to an
\* action stated for it at the highest level that stated it so far, whatever
\* the order in which the files of a directory were enumerated.
C1_HigherPrecedenceWins ==
    \A key \in DOMAIN top : Lookup(config, key) \in top[key].actions

\* load() has returned a store in which a key stated at two levels, with
\* different actions, is bound
C1_Witness ==
    /\ pc = "done"
    /\ \E key \in DOMAIN top :
        /\ top[key].lower # {}
        /\ top[key].lower \cap top[key].actions = {}

----------------------------------------------------------------------------
(* C2 *)

\* the two files a directory scan has loaded so far are well-formed and state
\* disjoint sets of keys
TwoDisjointSources ==
    /\ Len(scan.loaded) = 2
    /\ WellFormed(scan.loaded[1].content)
    /\ WellFormed(scan.loaded[2].content)
    /\ DocKeys(scan.loaded[1].content) \cap DocKeys(scan.loaded[2].content) = {}

\* C2: two well-formed sources with disjoint key sets, loaded in either order
\* into the same starting store, give the same store: the starting bindings
\* and both sources' bindings (the value is the same for both orders, which
\* the directory scan both takes).
C2_DisjointSourcesUnion ==
    TwoDisjointSources =>
        MergedIs(config, scan.prior,
                 {scan.loaded[1].content, scan.loaded[2].content})

\* the same, for sources every gesture record of which has an action field:
\* this much the code does
DisjointSourcesUnion_ActionsStated ==
    (/\ TwoDisjointSources
     /\ ~Inert(scan.loaded[1].content)
     /\ ~Inert(scan.loaded[2].content)) =>
        MergedIs(config, scan.prior,
                 {scan.loaded[1].content, scan.loaded[2].content})

\* two such sources, naming the same device with different gestures, loaded
DisjointSourcesUnion_Reached ==
    /\ TwoDisjointSources
    /\ ~Inert(scan.loaded[1].content)
    /\ ~Inert(scan.loaded[2].content)
    /\ scan.loaded[1].content = DocRight
    /\ scan.loaded[2].content = DocPrev
    /\ scan.prior # EmptyMap

\* a scan has handed two well-formed files with disjoint keys to the loader,
\* one of them with a record that has no action field, and that record's key
\* is not bound
C2_InertSourceDropped ==
    /\ TwoDisjointSources
    /\ scan.loaded[1].content = DocPrev
    /\ scan.loaded[2].content = DocNoAction
    /\ Lookup(config, <<"touchpad1", "swipe-right">>) = Unbound

----------------------------------------------------------------------------
(* C3 *)

\* a scan has just ended of a directory that holds three .toml files, two of
\* them well-formed and one not
OneMalformedTwoWellFormed ==
    /\ scan.level # "none"
    /\ pc \in {"user", "final"}
    /\ Cardinality(scan.entries) = 3
    /\ \A e \in scan.entries :
        e.status = "ok" /\ e.ftype = "file" /\ TomlName(e.name)
    /\ Cardinality({ e \in scan.entries : WellFormed(e.content) }) = 2

\* the store and the diagnostics after such a scan: the prior bindings and the
\* well-formed files' bindings, and one diagnostic, for the malformed file
MalformedFileIsolated ==
    LET good == { e \in scan.entries : WellFormed(e.content) }
        bad == CHOOSE e \in scan.entries : ~WellFormed(e.content)
    IN  /\ MergedIs(config, scan.prior, { e.content : e \in good })
        /\ Len(diags) = scan.ndiags + 1
        /\ diags[Len(diags)].msg = "Error loading configuration file at"
        /\ diags[Len(diags)].path = Join(scan.path, <<bad.name>>)

\* C3: after load_config_dir has scanned a directory of one malformed and two
\* well-formed .toml files, in any order, the store holds the prior bindings
\* and the two well-formed files' bindings, none of the malformed file, and
\* just one diagnostic was written, for the malformed file.
C3_MalformedFileIsolated == OneMalformedTwoWellFormed => MalformedFileIsolated

\* the same, for well-formed files every gesture record of which has an
\* action field: this much the code does
MalformedFileIsolated_ActionsStated ==
    (/\ OneMalformedTwoWellFormed
     /\ \A e \in scan.entries : ~Inert(e.content)) => MalformedFileIsolated

\* such a scan has ended, the malformed file having come first
MalformedFileIsolated_Reached ==
    /\ OneMalformedTwoWellFormed
    /\ \A e \in scan.entries : ~Inert(e.content)
    /\ ~WellFormed((CHOOSE e \in scan.entries : e.name = <<"50-late", "toml">>).content)
    /\ Len(scan.loaded) = 3
    /\ scan.loaded[1].content = DocLateBad

\* such a scan has ended with two diagnostics: one for the malformed file and
\* one for a well-formed file that has a record with no action field
C3_InertFileReported ==
    /\ OneMalformedTwoWellFormed
    /\ \E e \in scan.entries : WellFormed(e.content) /\ Inert(e.content)
    /\ Len(diags) = scan.ndiags + 2
    /\ Lookup(config, <<"touchpad1", "swipe-right">>) = Unbound

----------------------------------------------------------------------------
(* C4 *)

\* C4: whenever load_config_file fails, because the file cannot be read or
\* because its contents break the schema anywhere (also after device blocks
\* that are valid), the store is after the call what it was before it, and
\* the failure is reported with the file's path and a cause.
C4_FailedLoadLeavesStore ==
    (/\ call.made
     /\ \/ ~call.ok
        \/ call.node.kind # "file"
        \/ ~SchemaOk(call.node.content)) =>
        /\ ~call.ok
        /\ config = call.before
        /\ Len(diags) > 0
        /\ diags[Len(diags)].msg = "Error loading configuration file at"
        /\ diags[Len(diags)].path = call.path
        /\ diags[Len(diags)].cause # ""

\* a file whose second device block breaks the schema was loaded into a store
\* that held bindings
C4_Witness ==
    /\ call.made
    /\ ~call.ok
    /\ call.node.content = DocLateBad
    /\ call.before # EmptyMap

----------------------------------------------------------------------------
(* C5 *)

\* C5: a search path that does not exist is an empty source: the step of
\* load() that probes it changes neither the store nor the diagnostics and
\* goes on to the next source; and a step that probes a search path writes a
\* diagnostic only if the path exists and reading or parsing it failed.
C5_MissingPathIsEmptySource ==
    [][ probe'.level # "none" =>
          /\ probe'.node.kind = "absent" =>
                /\ config' = config
                /\ diags' = diags
                /\ pc' \notin {pc, "done"}
          /\ diags' # diags =>
                /\ probe'.node.kind # "absent"
                /\ \/ call'.made /\ ~call'.ok
                   \/ probe'.node.kind = "dir" /\ ~probe'.node.listable ]_vars

\* the user directory was found missing, with bindings in the store
C5_Witness ==
    /\ probe.level = "user directory"
    /\ probe.node.kind = "absent"
    /\ config # EmptyMap
    /\ diags = <<>>

----------------------------------------------------------------------------
(* C6 *)

\* C6: a gesture record with no action field is accepted by load_config_file,
\* and the store binds its (device, gesture) to the no-op action: a file that
\* follows the schema and has such a record loads, and the store binds each
\* of its keys as its last record for the key says.
C6_MissingActionIsNone ==
    (/\ call.made
     /\ call.node.kind = "file"
     /\ SchemaOk(call.node.content)
     /\ Inert(call.node.content)) =>
        /\ call.ok
        /\ \A key \in DocKeys(call.node.content) :
               Lookup(config, key) = LastAction(call.node.content, key)

\* a file whose one record has no action field was rejected: the store is as
\* before, and the failure was reported
C6_InertRecordRejected ==
    /\ call.made
    /\ call.node.content = DocNoAction
    /\ ~call.ok
    /\ config = call.before
    /\ diags[Len(diags)].msg = "Error loading configuration file at"
    /\ diags[Len(diags)].cause = "schema"

----------------------------------------------------------------------------
(* C7 *)

\* the names under which the summary may speak of config-home
ConfigHomePatterns == { <<<<"$XDG_CONFIG_HOME">>>>, <<<<"$HOME">>, <<"", "config">>>> }

\* the lines name the four patterns load() searches
ListsSearchedPaths(list) ==
    LET lines == { list[i] : i \in DOMAIN list }
    IN  /\ Join(PREFIX, <<<<"etc">>, <<"syngestures", "toml">>>>) \in lines
        /\ Join(PREFIX, <<<<"etc">>, <<"syngestures", "d">>, <<"*", "toml">>>>) \in lines
        /\ \E h \in ConfigHomePatterns :
               Join(h, <<<<"syngestures", "toml">>>>) \in lines
        /\ \E h \in ConfigHomePatterns :
               Join(h, <<<<"syngestures", "d">>, <<"*", "toml">>>>) \in lines

\* the summaries written so far
Summaries == { i \in DOMAIN diags : diags[i].msg = "No configuration found!" }

\* C7: when load() has returned, the "no configuration found" summary was
\* written once if the store holds no device and not at all otherwise, and it
\* lists every searched path: the four patterns under <prefix>/etc and under
\* config-home, also when the user sources were skipped.
C7_EmptySummary ==
    pc = "done" =>
        /\ Cardinality(Summaries) = IF DOMAIN config = {} THEN 1 ELSE 0
        /\ \A i \in Summaries : ListsSearchedPaths(diags[i].list)

\* the part of it the code does: once if the store holds no device, else never
EmptySummary_Count ==
    pc = "done" => Cardinality(Summaries) = IF DOMAIN config = {} THEN 1 ELSE 0

\* load() has returned an empty store, nothing at all having been found, and
\* the summary it wrote names <prefix>/etc/syngestures.toml nowhere
C7_SummaryMisnamesPaths ==
    /\ pc = "done"
    /\ config = EmptyMap
    /\ Len(diags) = 1
    /\ diags[1].msg = "No configuration found!"
    /\ \A i \in DOMAIN diags[1].list : diags[1].list[i] # GlobalConfig

----------------------------------------------------------------------------
(* C8 *)

\* C8: config-home is XDG_CONFIG_HOME's value when that is set to valid text,
\* and <home>/.config otherwise; when the variable is set to no valid text, or
\* is unset with no home directory to be found, load_user_config writes a
\* diagnostic and tries neither user source, the store stays as the system
\* sources left it, and load() goes on to return it.
C8_ResolverFailSoft ==
    [][ /\ pc = "user" =>
            /\ config' = config
            /\ IF ResolverFails(env')
               THEN /\ pc' = "final"
                    /\ searched' = searched
                    /\ Len(diags') = Len(diags) + 1
               ELSE /\ pc' = "user_file"
                    /\ diags' = diags
                    /\ config_home' =
                           IF env'.xdg.var = "Ok"
                           THEN env'.xdg.value
                           ELSE Join(env'.home.path, <<<<"", "config">>>>)
        /\ pc = "final" => (pc' = "done" /\ config' = config /\ searched' = searched) ]_vars

\* load() has returned the system sources' bindings, XDG_CONFIG_HOME being no
\* valid text
C8_Witness ==
    /\ pc = "done"
    /\ env.xdg.var = "NotUnicode"
    /\ searched = <<"system file", "system directory">>
    /\ config # EmptyMap

----------------------------------------------------------------------------
(* C9 *)

\* the sources applied so far are the first ones of the ladder, in its order
InLadderOrder ==
    /\ Len(searched) <= Len(Levels)
    /\ \A i \in DOMAIN searched : searched[i] = Levels[i]

\* when load() has returned, every source was applied, but for the user
\* sources when the resolver failed
AllApplied ==
    pc = "done" =>
        IF ResolverFails(env)
        THEN searched = SubSeq(Levels, 1, 2)
        ELSE searched = Levels

\* C9: in every run of load() the sources are applied in the order system
\* file, system directory, user file, user directory, each at most once; no
\* failure of a source keeps the later ones from being applied; and load()
\* comes to its end, returning the store.
C9_OrderedAndTerminates == [](InLadderOrder /\ AllApplied) /\ <>(pc = "done")

\* load() has returned after all four sources, the two system sources having
\* failed
C9_Witness ==
    /\ pc = "done"
    /\ searched = Levels
    /\ Len(diags) >= 2
    /\ diags[1].path = GlobalConfig
    /\ diags[2].path = GlobalConfigDir

----------------------------------------------------------------------------
(* C10 *)

\* the entries of the scanned directory that are files named *.toml
TomlFiles == { e \in scan.entries : e.status = "ok" /\ e.ftype = "file" /\ TomlName(e.name) }

\* C10: load_config_dir hands to the file loader just the direct entries of
\* the directory that are files, not subdirectories, and whose extension is
\* toml: no other entry is ever loaded, none is loaded twice, and when the
\* scan has ended each of them was loaded.  (An entry whose type cannot be
\* read is reported and not loaded.)
C10_OnlyTomlFilesLoaded ==
    /\ \A i \in DOMAIN scan.loaded : scan.loaded[i] \in TomlFiles
    /\ \A i, j \in DOMAIN scan.loaded : scan.loaded[i] = scan.loaded[j] => i = j
    /\ (scan.level # "none" /\ pc \in {"user", "final", "done"}) =>
           { scan.loaded[i] : i \in DOMAIN scan.loaded } = TomlFiles

\* a scan has ended of a directory that holds a subdirectory named sub.toml, a
\* file of another extension and a .toml file
C10_Witness ==
    /\ scan.level # "none"
    /\ pc \in {"user", "final"}
    /\ \E e \in scan.entries : e.ftype = "dir" /\ TomlName(e.name)
    /\ \E e \in scan.entries : e.ftype = "file" /\ ~TomlName(e.name)
    /\ Len(scan.loaded) = 1

====
